---------------------------- MODULE Spec2Model ----------------------------
(***************************************************************************)
(* PRIME SMART-2 CVD risk calculator (cvd_risk_app_FINAL.py).              *)
(*                                                                         *)
(* The program is a Streamlit script: every interaction with a widget      *)
(* re-executes the whole script top to bottom with the widgets' current    *)
(* values.  Three treatment widgets are keyed ("statin", "ezetimibe",      *)
(* "pcsk9i") and are read back through st.session_state; the PCSK9         *)
(* checkbox is only created when ldl >= 1.8.  A keyed widget's entry in    *)
(* st.session_state exists from the run that creates the widget until the  *)
(* end of the first completed run that does not create it.                 *)
(*                                                                         *)
(* Units.  The code works in binary floating point; the model works in     *)
(* exact decimal fixed point:                                              *)
(*   ldl            tenths of mmol/L         (3.0 mmol/L   is 30)          *)
(*   lp             1/100000                 (-8.1937      is -819370)     *)
(*   baseline_risk  tenths of a percent      (20.0 %       is 200)         *)
(*   projected_risk thousandths of a percent (11.8 %       is 11800)       *)
(*   *_text         tenths of a percent, the number a ":.1f" shows         *)
(* Where the decimal value is a tie that the floating point computation    *)
(* cannot represent exactly, the ":.1f" text may fall on either side and   *)
(* the model admits both.                                                  *)
(***************************************************************************)
EXTENDS Integers, Sequences, FiniteSets, TLC

VARIABLES
    age, sex, diabetes, smoker,          \* sidebar widgets
    vasc_cor, vasc_cer, vasc_per,        \* vascular disease checkboxes
    ldl, sbp, egfr,                      \* clinical markers
    sbp_target,                          \* target SBP slider
    session_state,                       \* st.session_state: key -> value
    lp,                                  \* linear predictor of the last run
    baseline_risk, rr_reduction, projected_risk,
    projected_text, delta_text,          \* the two st.metric strings
    status                               \* how the last script run ended

vars == <<age, sex, diabetes, smoker, vasc_cor, vasc_cer, vasc_per, ldl, sbp,
          egfr, sbp_target, session_state, lp, baseline_risk, rr_reduction,
          projected_risk, projected_text, delta_text, status>>

profile == <<age, sex, diabetes, smoker, vasc_cor, vasc_cer, vasc_per, ldl,
             sbp, egfr>>

outputs == <<lp, baseline_risk, rr_reduction, projected_risk, projected_text,
             delta_text, status>>

----------------------------------------------------------------------------
(* Widget ranges and defaults *)

AgeMin == 30
AgeMax == 90
AgeDefault == 65
EgfrMin == 15
EgfrMax == 120
EgfrDefault == 60
LdlMin == 5
LdlMax == 100
LdlDefault == 30
SbpMin == 80
SbpMax == 220
SbpDefault == 140
SbpTargetDefault == 130
Pcsk9LdlThreshold == 18

Sexes == {"Male", "Female"}
StatinOptions == {"None", "Moderate", "High"}
StatinDefault == "Moderate"

(* Values the widgets are moved to in a session: the defaults and values on *)
(* either side of the thresholds in the code.  With a systolic pressure of  *)
(* 184 the profile age 90, male, diabetes, smoker, eGFR 60, two vascular    *)
(* beds, LDL 3.0 has a baseline risk of exactly 20.0 %.                     *)
SessionAges == {AgeDefault, AgeMax}
SessionEgfrs == {29, EgfrDefault}
SessionLdls == {17, Pcsk9LdlThreshold, LdlDefault}
SessionSbps == {SbpDefault, 184}
SessionTargets == {129, SbpTargetDefault}

(* Arguments calculate_smart2_risk is applied to on its own. *)
EngineAges == AgeMin..AgeMax
EngineEgfrs == {EgfrMin, 29, 30, 59, EgfrDefault, EgfrMax}
EngineLdls == {LdlMin, 25, LdlDefault, LdlMax}
EngineSbps == {SbpMin, 120, SbpDefault, SbpMax}

----------------------------------------------------------------------------
(* Fixed point arithmetic standing in for np.exp *)

\* One in the fixed point representation of a real in [0, 1].
One == 1000000000

\* floor(a * b / One) for a, b in 0..One, by limbs of three decimal digits so
\* that no intermediate product leaves 32 bits.
MulFx(a, b) ==
    LET a2 == a \div 1000000
        a1 == (a \div 1000) % 1000
        a0 == a % 1000
        b2 == b \div 1000000
        b1 == (b \div 1000) % 1000
        b0 == b % 1000
    IN  a2 * b2 * 1000 + (a2 * b1 + a1 * b2)
        + ((a2 * b0 + a1 * b1 + a0 * b2)
           + ((a1 * b0 + a0 * b1) + (a0 * b0) \div 1000) \div 1000) \div 1000

\* Number of Taylor terms of exp(-t), t in [0, 1/10]: (1/10)^7 / 7! < 1/One.
ExpTerms == 6

RECURSIVE ExpHorner(_, _)
\* 1 - t/k (1 - t/(k+1) (1 - ... (1 - t/ExpTerms)))
ExpHorner(t, k) ==
    IF k > ExpTerms THEN One
    ELSE One - MulFx(t, ExpHorner(t, k + 1)) \div k

\* exp(-n/10) scaled by One, n in 1..9.
ExpNegTenth == <<904837418, 818730753, 740818221, 670320046, 606530660,
                 548811636, 496585304, 449328964, 406569660>>

\* exp(-t) for t in [0, One), t and the result scaled by One: the tenths of
\* t from the table, the rest by the series.
ExpNegFrac(t) ==
    LET n == t \div (One \div 10)
        f == t % (One \div 10)
    IN  IF n = 0 THEN ExpHorner(f, 1)
        ELSE MulFx(ExpNegTenth[n], ExpHorner(f, 1))

\* exp(-n) scaled by One, n in 0..12.
ExpNegInt == <<367879441, 135335283, 49787068, 18315639, 6737947, 2478752,
               911882, 335463, 123410, 45400, 16702, 6144>>

ExpNegWhole(n) == IF n = 0 THEN One ELSE ExpNegInt[n]


----------------------------------------------------------------------------
(* calculate_smart2_risk *)

\* Coefficients in units of 1/10000, as written in the source.
CoefIntercept == -81937
CoefAge == 635
CoefFemale == -3372
CoefDiabetes == 5034
CoefSmoker == 7862
CoefEgfrLt30 == 9235
CoefEgfr30to60 == 5539
CoefPolyvascular == 5434
CoefLdl == 2436
CoefSbp == 83
AgeCentre == 60
LdlCentre == 25
SbpCentre == 120
EgfrSevere == 30
EgfrModerate == 60
PolyvascularBeds == 2
HorizonYears == 10

Bool01(b) == IF b THEN 1 ELSE 0

\* sum([vasc_cor, vasc_cer, vasc_per])
VascCount(cor, cer, per) == Bool01(cor) + Bool01(cer) + Bool01(per)

\* coefficients with the systolic pressure left uncentred.
coefficients_SbpUncentred(e, vc, l, sb) ==
    [ intercept    |-> 10 * CoefIntercept,
      age          |-> 10 * CoefAge,
      female       |-> 10 * CoefFemale,
      diabetes     |-> 10 * CoefDiabetes,
      smoker       |-> 10 * CoefSmoker,
      egfr_lt30    |-> IF e < EgfrSevere THEN 10 * CoefEgfrLt30 ELSE 0,
      egfr30_60    |-> IF EgfrSevere <= e /\ e < EgfrModerate
                       THEN 10 * CoefEgfr30to60 ELSE 0,
      polyvascular |-> IF vc >= PolyvascularBeds
                       THEN 10 * CoefPolyvascular ELSE 0,
      ldl          |-> CoefLdl * (l - LdlCentre),
      sbp          |-> 10 * CoefSbp * sb ]

\* coefficients with the lower end of the 30-60 eGFR band excluded.
coefficients_EgfrBandOpen(e, vc, l, sb) ==
    [ intercept    |-> 10 * CoefIntercept,
      age          |-> 10 * CoefAge,
      female       |-> 10 * CoefFemale,
      diabetes     |-> 10 * CoefDiabetes,
      smoker       |-> 10 * CoefSmoker,
      egfr_lt30    |-> IF e < EgfrSevere THEN 10 * CoefEgfrLt30 ELSE 0,
      egfr30_60    |-> IF EgfrSevere < e /\ e < EgfrModerate
                       THEN 10 * CoefEgfr30to60 ELSE 0,
      polyvascular |-> IF vc >= PolyvascularBeds
                       THEN 10 * CoefPolyvascular ELSE 0,
      ldl          |-> CoefLdl * (l - LdlCentre),
      sbp          |-> 10 * CoefSbp * (sb - SbpCentre) ]

\* The coefficients dict.  Every entry is in units of 1/100000: the entries
\* that are plain coefficients are multiplied by ten, the ldl entry is the
\* coefficient times (ldl - 2.5) with ldl in tenths.
coefficients(e, vc, l, sb) ==
    [ intercept    |-> 10 * CoefIntercept,
      age          |-> 10 * CoefAge,
      female       |-> 10 * CoefFemale,
      diabetes     |-> 10 * CoefDiabetes,
      smoker       |-> 10 * CoefSmoker,
      egfr_lt30    |-> IF e < EgfrSevere THEN 10 * CoefEgfrLt30 ELSE 0,
      egfr30_60    |-> IF EgfrSevere <= e /\ e < EgfrModerate
                       THEN 10 * CoefEgfr30to60 ELSE 0,
      polyvascular |-> IF vc >= PolyvascularBeds
                       THEN 10 * CoefPolyvascular ELSE 0,
      ldl          |-> CoefLdl * (l - LdlCentre),
      sbp          |-> 10 * CoefSbp * (sb - SbpCentre) ]

\* lp with the age term subtracted from the centre instead of centred.
LinearPredictor_AgeReversed(a, sx, d, sm, e, vc, l, sb) ==
    LET c == coefficients(e, vc, l, sb)
    IN  c.intercept
        + c.age * (AgeCentre - a)
        + c.female * (IF sx = "Female" THEN 1 ELSE 0)
        + c.diabetes * Bool01(d)
        + c.smoker * Bool01(sm)
        + c.egfr_lt30
        + c.egfr30_60
        + c.polyvascular
        + c.ldl
        + c.sbp

\* lp, in units of 1/100000.
LinearPredictor(a, sx, d, sm, e, vc, l, sb) ==
    LET c == coefficients(e, vc, l, sb)
    IN  c.intercept
        + c.age * (a - AgeCentre)
        + c.female * (IF sx = "Female" THEN 1 ELSE 0)
        + c.diabetes * Bool01(d)
        + c.smoker * Bool01(sm)
        + c.egfr_lt30
        + c.egfr30_60
        + c.polyvascular
        + c.ldl
        + c.sbp

\* exp(x / 100000) scaled by One, for x <= 0.
ExpOfLp(x) ==
    LET n == (-x) \div 100000
        r == (-x) % 100000
    IN  MulFx(ExpNegWhole(n), ExpNegFrac(r * 10000))

\* 1 - exp(-exp(lp) * 10) scaled by One: risk_percent is a hundred times it.
RiskPercent(x) ==
    LET h  == ExpOfLp(x)                       \* exp(lp)
        hi == h \div (One \div HorizonYears)   \* whole part of exp(lp) * 10
        hf == (h % (One \div HorizonYears)) * HorizonYears
        s  == MulFx(ExpNegWhole(hi), ExpNegFrac(hf))
    IN  One - s

\* round(risk_percent, 1) in tenths of a percent.
Round1(r) == (r + 500000) \div 1000000

Min(a, b) == IF a <= b THEN a ELSE b
Max(a, b) == IF a >= b THEN a ELSE b

\* max(0, min(100, round(risk_percent, 1))) in tenths of a percent.
calculate_smart2_risk(a, sx, d, sm, e, vc, l, sb) ==
    Max(0, Min(1000, Round1(RiskPercent(LinearPredictor(a, sx, d, sm, e, vc, l, sb)))))


----------------------------------------------------------------------------
(* Treatment effects and projection *)

StatinModerateEffect == 25
StatinHighEffect == 35
EzetimibeEffect == 6
Pcsk9Effect == 15
SbpTargetEffect == 15
SbpTargetThreshold == 130

\* The value of a name the script never bound, or a text it never rendered.
Unassigned == -1

\* RrLipid with the two statin intensities exchanged.
RrLipid_IntensitiesSwapped(ss) ==
    (IF ss["statin"] = "Moderate" THEN StatinHighEffect
     ELSE IF ss["statin"] = "High" THEN StatinModerateEffect
     ELSE 0)
    + (IF ss["ezetimibe"] THEN EzetimibeEffect ELSE 0)

\* RrLipid with High counted on top of Moderate.
RrLipid_HighStacked(ss) ==
    (IF ss["statin"] = "Moderate" THEN StatinModerateEffect
     ELSE IF ss["statin"] = "High" THEN StatinModerateEffect + StatinHighEffect
     ELSE 0)
    + (IF ss["ezetimibe"] THEN EzetimibeEffect ELSE 0)

\* rr_reduction after the statin and ezetimibe statements.
RrLipid(ss) ==
    (IF ss["statin"] = "Moderate" THEN StatinModerateEffect
     ELSE IF ss["statin"] = "High" THEN StatinHighEffect
     ELSE 0)
    + (IF ss["ezetimibe"] THEN EzetimibeEffect ELSE 0)

\* RrReduction with the SBP target compared by <= instead of <.
RrReduction_TargetInclusive(ss, tgt) ==
    RrLipid(ss)
    + (IF ss["pcsk9i"] THEN Pcsk9Effect ELSE 0)
    + (IF tgt <= SbpTargetThreshold THEN SbpTargetEffect ELSE 0)

\* rr_reduction once all four statements have run.
RrReduction(ss, tgt) ==
    RrLipid(ss)
    + (IF ss["pcsk9i"] THEN Pcsk9Effect ELSE 0)
    + (IF tgt < SbpTargetThreshold THEN SbpTargetEffect ELSE 0)

\* ProjectedRisk with the reduction added instead of subtracted.
ProjectedRisk_ReductionAdded(b, rr) == Max(0, b * (100 + rr))

\* projected_risk = max(0, baseline_risk * (1 - rr_reduction/100)), in
\* thousandths of a percent (b is in tenths).
ProjectedRisk(b, rr) == Max(0, b * (100 - rr))

\* baseline_risk - projected_risk in thousandths of a percent.
RiskDelta(b, p) == b * 100 - p

\* baseline_risk and 1 - rr_reduction/100 are both binary fractions, so the
\* floating point product and difference are the decimal values exactly.
FloatExact(b, rr) == b % 5 = 0 /\ (100 - rr) % 25 = 0

\* Format1f cutting the digits off instead of rounding.
Format1f_Truncated(m, exact) == {m \div 100}

\* The tenths f"{x:.1f}" can show for x = m thousandths: the nearest tenth;
\* a value half way between two tenths goes to the even one when the float
\* holds it exactly, and to either when it holds a neighbour of it.
Format1f(m, exact) ==
    LET q == m \div 100
        r == m % 100
    IN  IF r < 50 THEN {q}
        ELSE IF r > 50 THEN {q + 1}
        ELSE IF exact THEN {IF q % 2 = 0 THEN q ELSE q + 1}
        ELSE {q, q + 1}

----------------------------------------------------------------------------
(* st.session_state and one execution of the script *)

EmptyState == [k \in {} |-> FALSE]

\* A keyed widget takes its value from session state, or puts its default
\* there when the key is new.
WithDefault(ss, k, v) == IF k \in DOMAIN ss THEN ss ELSE (k :> v) @@ ss

\* Session state once the treatment widgets have been created.
AfterWidgets(ss, l) ==
    LET s1 == WithDefault(ss, "statin", StatinDefault)
        s2 == IF l >= Pcsk9LdlThreshold THEN WithDefault(s1, "pcsk9i", FALSE)
              ELSE s1
    IN  WithDefault(s2, "ezetimibe", FALSE)

\* The keys whose widget the script created in a run.
WidgetsThisRun(l) ==
    {"statin", "ezetimibe"}
    \cup (IF l >= Pcsk9LdlThreshold THEN {"pcsk9i"} ELSE {})

\* At the end of a completed run the entries of widgets that were not
\* created in it are dropped.
RemoveStale(ss, l) == [k \in (DOMAIN ss) \cap WidgetsThisRun(l) |-> ss[k]]

\* Lines 122-150 on the widget values a..tgt and the session state ss the
\* widgets left: what the run binds and renders.  Reading
\* st.session_state.pcsk9i raises when the key is absent: the run stops there
\* and nothing below that statement is bound or rendered.  sso, x, b, rr, p,
\* pt, dt and st are the values of session_state, lp, baseline_risk,
\* rr_reduction, projected_risk, projected_text, delta_text and status after
\* the run.
RunBinds(a, sx, d, sm, vc, l, sb, e, tgt, ss, sso, x, b, rr, p, pt, dt, st) ==
    /\ x = LinearPredictor(a, sx, d, sm, e, vc, l, sb)
    /\ b = calculate_smart2_risk(a, sx, d, sm, e, vc, l, sb)
    /\ IF "pcsk9i" \in DOMAIN ss
       THEN /\ rr = RrReduction(ss, tgt)
            /\ p = ProjectedRisk(b, rr)
            /\ pt \in Format1f(p, FloatExact(b, rr))
            /\ dt \in Format1f(RiskDelta(b, p), FloatExact(b, rr))
            /\ st = "ok"
            /\ sso = RemoveStale(ss, l)
       ELSE /\ rr = RrLipid(ss)
            /\ p = Unassigned
            /\ pt = Unassigned
            /\ dt = Unassigned
            /\ st = "AttributeError"
            /\ sso = ss

\* The script is re-executed with the new widget values, from session state
\* ss0.
ScriptRun(a, sx, d, sm, vco, vce, vpe, l, sb, e, tgt, ss0) ==
    /\ age' = a
    /\ sex' = sx
    /\ diabetes' = d
    /\ smoker' = sm
    /\ vasc_cor' = vco
    /\ vasc_cer' = vce
    /\ vasc_per' = vpe
    /\ ldl' = l
    /\ sbp' = sb
    /\ egfr' = e
    /\ sbp_target' = tgt
    /\ RunBinds(a, sx, d, sm, VascCount(vco, vce, vpe), l, sb, e, tgt,
                AfterWidgets(ss0, l), session_state', lp', baseline_risk',
                rr_reduction', projected_risk', projected_text', delta_text',
                status')

\* A new session: the script runs once with every widget at its default.
Init ==
    /\ age = AgeDefault
    /\ sex = "Male"
    /\ diabetes = FALSE
    /\ smoker = FALSE
    /\ vasc_cor = FALSE
    /\ vasc_cer = FALSE
    /\ vasc_per = FALSE
    /\ ldl = LdlDefault
    /\ sbp = SbpDefault
    /\ egfr = EgfrDefault
    /\ sbp_target = SbpTargetDefault
    /\ RunBinds(AgeDefault, "Male", FALSE, FALSE, 0, LdlDefault, SbpDefault,
                EgfrDefault, SbpTargetDefault,
                AfterWidgets(EmptyState, LdlDefault), session_state, lp,
                baseline_risk, rr_reduction, projected_risk, projected_text,
                delta_text, status)

----------------------------------------------------------------------------
(* The user's interactions: each changes one widget and re-runs the script *)

SetAge ==
    \E v \in SessionAges \ {age} :
        ScriptRun(v, sex, diabetes, smoker, vasc_cor, vasc_cer, vasc_per,
                  ldl, sbp, egfr, sbp_target, session_state)

SetSex ==
    \E v \in Sexes \ {sex} :
        ScriptRun(age, v, diabetes, smoker, vasc_cor, vasc_cer, vasc_per,
                  ldl, sbp, egfr, sbp_target, session_state)

ToggleDiabetes ==
    ScriptRun(age, sex, ~diabetes, smoker, vasc_cor, vasc_cer, vasc_per,
              ldl, sbp, egfr, sbp_target, session_state)

ToggleSmoker ==
    ScriptRun(age, sex, diabetes, ~smoker, vasc_cor, vasc_cer, vasc_per,
              ldl, sbp, egfr, sbp_target, session_state)

ToggleVascCor ==
    ScriptRun(age, sex, diabetes, smoker, ~vasc_cor, vasc_cer, vasc_per,
              ldl, sbp, egfr, sbp_target, session_state)

ToggleVascCer ==
    ScriptRun(age, sex, diabetes, smoker, vasc_cor, ~vasc_cer, vasc_per,
              ldl, sbp, egfr, sbp_target, session_state)

ToggleVascPer ==
    ScriptRun(age, sex, diabetes, smoker, vasc_cor, vasc_cer, ~vasc_per,
              ldl, sbp, egfr, sbp_target, session_state)

SetLdl ==
    \E v \in SessionLdls \ {ldl} :
        ScriptRun(age, sex, diabetes, smoker, vasc_cor, vasc_cer, vasc_per,
                  v, sbp, egfr, sbp_target, session_state)

SetSbp ==
    \E v \in SessionSbps \ {sbp} :
        ScriptRun(age, sex, diabetes, smoker, vasc_cor, vasc_cer, vasc_per,
                  ldl, v, egfr, sbp_target, session_state)

SetEgfr ==
    \E v \in SessionEgfrs \ {egfr} :
        ScriptRun(age, sex, diabetes, smoker, vasc_cor, vasc_cer, vasc_per,
                  ldl, sbp, v, sbp_target, session_state)

SetSbpTarget ==
    \E v \in SessionTargets \ {sbp_target} :
        ScriptRun(age, sex, diabetes, smoker, vasc_cor, vasc_cer, vasc_per,
                  ldl, sbp, egfr, v, session_state)

SetStatin ==
    \E v \in StatinOptions \ {session_state["statin"]} :
        ScriptRun(age, sex, diabetes, smoker, vasc_cor, vasc_cer, vasc_per,
                  ldl, sbp, egfr, sbp_target,
                  [session_state EXCEPT !["statin"] = v])

ToggleEzetimibe ==
    ScriptRun(age, sex, diabetes, smoker, vasc_cor, vasc_cer, vasc_per,
              ldl, sbp, egfr, sbp_target,
              [session_state EXCEPT !["ezetimibe"] = ~@])

\* The PCSK9 checkbox is on the page only if the last run created it.
TogglePcsk9i ==
    /\ ldl >= Pcsk9LdlThreshold
    /\ ScriptRun(age, sex, diabetes, smoker, vasc_cor, vasc_cer, vasc_per,
                 ldl, sbp, egfr, sbp_target,
                 [session_state EXCEPT !["pcsk9i"] = ~@])

\* A widget the calculation never reads is changed (HDL-C, ACE inhibitor,
\* calcium channel blocker, diet, exercise, smoking cessation): the script
\* runs again on unchanged inputs.
ChangeOtherWidget ==
    ScriptRun(age, sex, diabetes, smoker, vasc_cor, vasc_cer, vasc_per,
              ldl, sbp, egfr, sbp_target, session_state)

Next ==
    \/ SetAge
    \/ SetSex
    \/ ToggleDiabetes
    \/ ToggleSmoker
    \/ ToggleVascCor
    \/ ToggleVascCer
    \/ ToggleVascPer
    \/ SetLdl
    \/ SetSbp
    \/ SetEgfr
    \/ SetSbpTarget
    \/ SetStatin
    \/ ToggleEzetimibe
    \/ TogglePcsk9i
    \/ ChangeOtherWidget

Spec == Init /\ [][Next]_vars

----------------------------------------------------------------------------
(* calculate_smart2_risk applied on its own to arguments from the widget    *)
(* ranges                                                                   *)

EngineInit ==
    /\ age \in EngineAges
    /\ sex \in Sexes
    /\ diabetes \in BOOLEAN
    /\ smoker \in BOOLEAN
    /\ vasc_cor \in BOOLEAN
    /\ vasc_cer \in BOOLEAN
    /\ vasc_per \in BOOLEAN
    /\ ldl \in EngineLdls
    /\ sbp \in EngineSbps
    /\ egfr \in EngineEgfrs
    /\ sbp_target = SbpTargetDefault
    /\ session_state = EmptyState
    /\ lp = 0
    /\ baseline_risk = Unassigned
    /\ rr_reduction = 0
    /\ projected_risk = Unassigned
    /\ projected_text = Unassigned
    /\ delta_text = Unassigned
    /\ status = "pending"

Calculate ==
    /\ status = "pending"
    /\ lp' = LinearPredictor(age, sex, diabetes, smoker, egfr,
                             VascCount(vasc_cor, vasc_cer, vasc_per), ldl, sbp)
    /\ baseline_risk' = calculate_smart2_risk(age, sex, diabetes, smoker, egfr,
                             VascCount(vasc_cor, vasc_cer, vasc_per), ldl, sbp)
    /\ status' = "calculated"
    /\ UNCHANGED <<profile, sbp_target, session_state, rr_reduction,
                   projected_risk, projected_text, delta_text>>

EngineNext == Calculate

EngineSpec == EngineInit /\ [][EngineNext]_vars


----------------------------------------------------------------------------
(* Properties *)

Ok == status = "ok"
Calculated == status = "calculated"

Abs(n) == IF n >= 0 THEN n ELSE -n

\* The contribution the text of the specification gives each statin option.
StatinContribution(v) ==
    CASE v = "None" -> 0
      [] v = "Moderate" -> 25
      [] v = "High" -> 35

StatinRank(v) ==
    CASE v = "None" -> 0
      [] v = "Moderate" -> 1
      [] v = "High" -> 2

\* The PCSK9 values a completed run can have read: the checkbox's value when
\* the checkbox is on the page, the retained value (not kept in the state
\* after the run) when it is not.
Pcsk9Read ==
    IF "pcsk9i" \in DOMAIN session_state THEN {session_state["pcsk9i"]}
    ELSE BOOLEAN

AllFourSelected ==
    /\ Ok
    /\ session_state["statin"] = "High"
    /\ session_state["ezetimibe"]
    /\ "pcsk9i" \in DOMAIN session_state
    /\ session_state["pcsk9i"]
    /\ sbp_target < 130

\* C1: in every run that computes them, 0 <= projected risk <= baseline risk
\* <= 100, for the values the script binds and for the values it shows; the
\* baseline risk is within [0, 100] in every run.
C1_RiskBounds ==
    /\ baseline_risk >= 0
    /\ baseline_risk <= 1000
    /\ Ok => /\ 0 <= projected_risk
             /\ projected_risk <= 100 * baseline_risk
             /\ 0 <= projected_text
             /\ projected_text <= baseline_risk

C1_Witness ==
    /\ Ok
    /\ rr_reduction > 0
    /\ baseline_risk > 100
    /\ projected_risk > 0
    /\ projected_risk < 100 * baseline_risk
    /\ projected_text < baseline_risk

\* C2: the relative risk reduction of a completed run is the plain sum of
\* the triggered contributions: 25 for Moderate or 35 for High, 6 for
\* ezetimibe, 15 for the PCSK9 inhibitor, 15 for a target SBP below 130 and
\* nothing for a target of 130 or more.
C2_PlainSum ==
    Ok => \E pcsk9 \in Pcsk9Read :
              rr_reduction = StatinContribution(session_state["statin"])
                             + (IF session_state["ezetimibe"] THEN 6 ELSE 0)
                             + (IF pcsk9 THEN 15 ELSE 0)
                             + (IF sbp_target >= 130 THEN 0 ELSE 15)

\* High statin and ezetimibe alone on a baseline of 20.0 %: 41 and 11.8 %.
C2_Witness ==
    /\ Ok
    /\ session_state["statin"] = "High"
    /\ session_state["ezetimibe"]
    /\ "pcsk9i" \in DOMAIN session_state
    /\ ~session_state["pcsk9i"]
    /\ sbp_target = 130
    /\ rr_reduction = 41
    /\ baseline_risk = 200
    /\ projected_risk = 11800

\* C3: whatever the LDL, the run reads the PCSK9 selection without error.
C3_Pcsk9ReadAtAnyLdl == ldl < 18 => status # "AttributeError"

\* C4 as claimed: the projected risk shown is max(0, baseline x (1 - rrr/100))
\* rounded to one decimal, and the absolute risk reduction shown is the
\* baseline minus that rounded projected risk.  Stated for the runs whose
\* floating point values are the decimal values exactly, where what is
\* shown does not depend on a representation error.
C4_DeltaFromRounded ==
    (Ok /\ FloatExact(baseline_risk, rr_reduction))
    => /\ Abs(projected_risk - 100 * projected_text) <= 50
       /\ delta_text = baseline_risk - projected_text

\* C4 amended: the projected risk shown is max(0, baseline x (1 - rrr/100))
\* rounded to one decimal; the absolute risk reduction shown is the baseline
\* minus the unrounded projected risk, rounded to one decimal, which is
\* within 0.1 of the baseline minus the rounded projected risk.
C4_DeltaFromUnrounded ==
    Ok => /\ projected_risk = Max(0, baseline_risk * (100 - rr_reduction))
          /\ Abs(projected_risk - 100 * projected_text) <= 50
          /\ Abs((100 * baseline_risk - projected_risk) - 100 * delta_text) <= 50
          /\ Abs(delta_text - (baseline_risk - projected_text)) <= 1

\* Baseline 0.5 %, reduction 50: 0.25 % is shown as 0.2 % and so is the
\* difference 0.25.
C4_Witness ==
    /\ Ok
    /\ baseline_risk = 5
    /\ rr_reduction = 50
    /\ projected_risk = 250
    /\ projected_text = 2
    /\ delta_text = 2

\* C5 as claimed: High statin, ezetimibe, PCSK9 inhibitor and a target SBP
\* below 130 sum to 110, and a baseline of 20 % is projected to 0.
C5_SumIs110 ==
    AllFourSelected => /\ rr_reduction = 110
                       /\ baseline_risk = 200 => projected_risk = 0

\* C5 amended: the four together sum to 71, below 100, so the factor stays
\* at 0.29 and is not floored: a baseline of 20 % is projected to 5.8 %.
C5_SumIs71 ==
    AllFourSelected => /\ rr_reduction = 71
                       /\ projected_risk = 29 * baseline_risk
                       /\ baseline_risk = 200 => /\ projected_risk = 5800
                                                 /\ projected_text = 58

C5_Witness ==
    /\ AllFourSelected
    /\ baseline_risk = 200
    /\ projected_risk = 5800

ScenarioProfile ==
    /\ Calculated
    /\ sex = "Male"
    /\ egfr = 60
    /\ VascCount(vasc_cor, vasc_cer, vasc_per) = 0
    /\ ldl = 25
    /\ sbp = 120

\* C6 as claimed: for age 65, male, eGFR 60, no vascular bed, LDL 2.5 and
\* SBP 120 the linear predictor is the intercept alone, -8.1937, without
\* diabetes and smoking, and -6.9041 with both.
C6_InterceptAloneAt65 ==
    (ScenarioProfile /\ age = 65)
    => /\ (~diabetes /\ ~smoker) => lp = -819370
       /\ (diabetes /\ smoker) => lp = -690410

\* C6 amended: at age 65 the age term adds 0.0635 x 5 = 0.3175, so the
\* linear predictor is -7.8762 without diabetes and smoking and -6.5866 with
\* both; it is -8.1937 and -6.9041 at age 60, where every term but the
\* intercept, diabetes and smoker contributes zero.
C6_AgeTermAt65 ==
    /\ (ScenarioProfile /\ age = 65)
       => /\ (~diabetes /\ ~smoker) => lp = -787620
          /\ (diabetes /\ smoker) => lp = -658660
    /\ (ScenarioProfile /\ age = 60)
       => /\ (~diabetes /\ ~smoker) => lp = -819370
          /\ (diabetes /\ smoker) => lp = -690410

C6_Witness ==
    /\ ScenarioProfile
    /\ age = 65
    /\ diabetes
    /\ smoker
    /\ lp = -658660
    /\ baseline_risk = 14

\* C7: the linear predictor is the sum over the coefficient table, each row
\* once; eGFR 30 is in the 30-60 band and eGFR 60 in neither band.
C7_LpIsTableSum ==
    Calculated =>
        lp = 10 * ( -81937
                    + 635 * (age - 60)
                    + (IF sex = "Female" THEN -3372 ELSE 0)
                    + (IF diabetes THEN 5034 ELSE 0)
                    + (IF smoker THEN 7862 ELSE 0)
                    + (IF egfr <= 29 THEN 9235 ELSE 0)
                    + (IF egfr \in 30..59 THEN 5539 ELSE 0)
                    + (IF Cardinality({v \in {<<1, vasc_cor>>, <<2, vasc_cer>>,
                                              <<3, vasc_per>>} : v[2]}) >= 2
                       THEN 5434 ELSE 0)
                    + 83 * (sbp - 120) )
             + 2436 * (ldl - 25)

C7_Witness ==
    /\ Calculated
    /\ egfr = 30
    /\ sex = "Female"
    /\ vasc_cor /\ vasc_per /\ ~vasc_cer
    /\ age = 90
    /\ ldl = 100
    /\ lp = 10 * (-81937 + 635 * 30 - 3372 + 5539 + 5434 + 83 * 20)
            + 2436 * 75
    /\ sbp = 140

\* C8: a run with the same profile and the same treatment selection as the
\* run before it gives the same baseline risk, relative risk reduction and
\* projected risk, and ends the same way.
SameInputs ==
    /\ profile' = profile
    /\ sbp_target' = sbp_target
    /\ session_state'["statin"] = session_state["statin"]
    /\ session_state'["ezetimibe"] = session_state["ezetimibe"]
    /\ ldl >= 18 => session_state'["pcsk9i"] = session_state["pcsk9i"]

C8_SameInputsSameResult ==
    [][SameInputs =>
          <<baseline_risk, rr_reduction, projected_risk, status>>'
          = <<baseline_risk, rr_reduction, projected_risk, status>>]_vars

\* C9: one more year of age, everything else equal, does not lower the
\* baseline risk (so neither does any number of years).
C9_AgeMonotone ==
    (Calculated /\ age < 90) =>
        baseline_risk
        <= calculate_smart2_risk(age + 1, sex, diabetes, smoker, egfr,
                                 VascCount(vasc_cor, vasc_cer, vasc_per),
                                 ldl, sbp)

\* An age step across which the rounded risk strictly rises.
C9_Witness ==
    /\ Calculated
    /\ age = 89
    /\ baseline_risk > 0
    /\ baseline_risk
       < calculate_smart2_risk(90, sex, diabetes, smoker, egfr,
                               VascCount(vasc_cor, vasc_cer, vasc_per),
                               ldl, sbp)

\* C10: raising the statin intensity with the baseline and the other three
\* choices fixed does not raise the projected risk.
C10_StatinMonotone ==
    [][( /\ Ok
         /\ Ok'
         /\ baseline_risk' = baseline_risk
         /\ sbp_target' = sbp_target
         /\ session_state'["ezetimibe"] = session_state["ezetimibe"]
         /\ "pcsk9i" \in DOMAIN session_state
         /\ "pcsk9i" \in DOMAIN session_state'
         /\ session_state'["pcsk9i"] = session_state["pcsk9i"]
         /\ StatinRank(session_state'["statin"])
            > StatinRank(session_state["statin"]) )
       => projected_risk' <= projected_risk]_vars

C10_Witness ==
    /\ Ok
    /\ session_state["statin"] = "High"
    /\ baseline_risk = 200
    /\ rr_reduction = 35
    /\ projected_risk = 13000

=============================================================================
